---- MODULE Spec2Model ----
(***************************************************************************)
(* Wire Vision AI (src/main.py): a Streamlit script.  Streamlit runs the   *)
(* whole script top to bottom once when the page is first loaded and once  *)
(* more after every widget interaction; st.session_state survives between  *)
(* the runs.  One action of this model is one run of the script for one    *)
(* trigger (first load, a widget change, a click on one button).           *)
(*                                                                         *)
(* JSON values are modelled as strings; Absent stands for a key that the   *)
(* JSON object does not hold.                                              *)
(***************************************************************************)
EXTENDS Naturals, Sequences, FiniteSets

\* ------------------------------------------------------------------ bounds

\* The backend's job list holds at most MaxJobs jobs.
MaxJobs == 2

\* ------------------------------------------------------------- data domains

Absent == "<absent>"

AllJobIds == <<"j1", "j2", "j3", "j4">>

\* The ids the backend assigns (unique per job, spec section 3).
JobIds == {AllJobIds[i] : i \in 1..MaxJobs}

\* The status values the backend reports; "ARCHIVED" is a value outside the
\* documented set, Absent a job without the key.
Statuses == {"PENDING_UPLOAD", "PROCESSING", "PENDING_PDF", "DONE", "FAILED", "ARCHIVED", Absent}

\* uploadTimestamp values: sortable strings; the key may be missing.
Timestamps == {Absent, "", "2024-01-01", "2024-01-02"}

\* targetLanguage values a listed job or a details response carries.
JobLanguages == {Absent, "en", "fr"}

\* Python's order of the strings used as sort keys ("" is the least string).
StrRank(s) == CASE s = "" -> 0 [] s = "2024-01-01" -> 1 [] s = "2024-01-02" -> 2 [] OTHER -> 3

\* dict.get(key, default) on a modelled JSON object field
Get(value, default) == IF value = Absent THEN default ELSE value


\* ------------------------------------------------------- backend responses

NoDup(list) == \A i, k \in 1..Len(list) : list[i].id = list[k].id => i = k

\* The lists of n jobs of pool with n different ids.
RECURSIVE ListsOfLen(_, _)
ListsOfLen(pool, n) ==
    IF n = 0 THEN {<<>>}
    ELSE UNION {{Append(list, job) : job \in {x \in pool : \A i \in DOMAIN list : list[i].id # x.id}} :
                  list \in ListsOfLen(pool, n - 1)}

\* The "jobs" arrays the backend can list with job summaries drawn from
\* pool: at most MaxJobs jobs, ids unique (spec section 3), in any order.
JobLists(pool) == UNION {ListsOfLen(pool, n) : n \in 0..MaxJobs}

\* The job summaries of pool that carry the i-th job id.
WithId(pool, i) == {job \in pool : job.id = AllJobIds[i]}

\* The job lists of a backend that lists its jobs in the order of their
\* ids: each of the ids from the i-th on is listed once or not at all.
RECURSIVE ListsFrom(_, _)
ListsFrom(pool, i) ==
    IF i > MaxJobs THEN {<<>>}
    ELSE LET rest == ListsFrom(pool, i + 1)
         IN  rest \cup {<<job>> \o list : job \in WithId(pool, i), list \in rest}

JobListsById(pool) == ListsFrom(pool, 1)

\* How a request ends.  "network": no response (ConnectionError, Timeout);
\* "http": a 4xx/5xx status, raised by raise_for_status(); "decode": a 2xx
\* body that is not JSON, raised by response.json() as
\* requests.exceptions.JSONDecodeError (requests 2.27 and later, which the
\* Streamlit release that has st.link_button requires).  All three are
\* RequestExceptions, the one class the helpers catch.
\* "shape": a 2xx JSON body that is not an object (a non-empty list or
\* string); "json": a 2xx JSON object.
RequestExceptions == {"network", "http", "decode"}

Failures == RequestExceptions \cup {"shape"}

UploadUrls == {"https://x/u1"}

\* POST /jobs: the request fails, or answers a JSON object with or without
\* "jobId" and "uploadUrl".  The payload (file name, content type, target
\* language) has no effect on the client and is not modelled.
CreateResponses(fails) ==
    [kind : fails \cap RequestExceptions, jobId : {Absent}, uploadUrl : {Absent}]
       \cup [kind : {"json"}, jobId : {Absent, "j1"}, uploadUrl : UploadUrls \cup {Absent}]

\* PUT <uploadUrl>
UploadResponses(fails) == (fails \cap {"network", "http"}) \cup {"ok"}

\* GET /jobs; a JSON object without "jobs" reads as an empty list (line 56).
ListResponses(fails, jobLists) == [kind : fails, jobs : {<<>>}] \cup [kind : {"json"}, jobs : jobLists]

Texts == {Absent, "", "Turn off power."}

Translations == {Absent, "", "Coupez l'alimentation."}

\* selected_job_details; kind "none" is Python's None.
None ==
    [kind |-> "none", jobId |-> Absent, targetLanguage |-> Absent,
     englishInstructions |-> Absent, translatedInstructions_fr |-> Absent]

\* GET /jobs/{jobId}/instructions: the request fails, or answers a JSON
\* value that is no object, or one of the JobDetails objects in pool.
DetailsResponses(fails, pool) == {[None EXCEPT !.kind = k] : k \in fails} \cup pool

\* GET /jobs/{jobId}/download
PdfResponses(fails, urls) == [kind : fails, downloadUrl : {Absent}] \cup [kind : {"json"}, downloadUrl : urls]

\* -------------------------------------------------------------------- state

VARIABLES jobs, selected_job_details, dl, event, calls, msgs, fault, page

\* jobs                  st.session_state.jobs, the registry
\* selected_job_details  st.session_state.selected_job_details
\* dl                    st.session_state["dl_<id>"] per job id, Absent when the key is not set
\* event                 what triggered the last run of the script, and for a click on
\*                       "Start Processing" the value of the file uploader (line 106)
\* calls                 the requests the last run issued, in order
\* msgs                  what the last run surfaced with st.error/warning/success/toast
\* fault                 the exception that stopped the last run, "none" when it ran to the end
\* page                  what the last run rendered
vars == <<jobs, selected_job_details, dl, event, calls, msgs, fault, page>>

NoFile == "<no file>"

Files == {NoFile, "drawing.png"}

NoPanel == "<no panel>"

Placeholder == "Instructions not available."

\* Nothing rendered: no Refresh button, no row, no instruction panel.
BlankPage == [refresh |-> FALSE, rows |-> 0, links |-> 0, panel |-> NoPanel]

\* The script's view of the session while one run executes.
Begin == [jobs |-> jobs, sel |-> selected_job_details, dl |-> dl, calls |-> <<>>, msgs |-> {}, fault |-> "none", page |-> BlankPage]

Call(op, site, target, kind, reply) == [op |-> op, site |-> site, target |-> target, kind |-> kind, reply |-> reply]

\* sorted(..., key=lambda x: x.get('uploadTimestamp', ''), reverse=True), line 56
SortKey(job) == StrRank(Get(job.uploadTimestamp, ""))

\* A descending sort that puts x before the jobs of the same key (what
\* reversing an ascending sort does).
InsertDesc_Unstable(acc, x) ==
    LET p == Cardinality({i \in 1..Len(acc) : SortKey(acc[i]) > SortKey(x)})
    IN  SubSeq(acc, 1, p) \o <<x>> \o SubSeq(acc, p + 1, Len(acc))

\* One step of the stable descending sort: x goes behind every job already
\* placed whose key is not smaller.
InsertDesc(acc, x) ==
    LET p == Cardinality({i \in 1..Len(acc) : SortKey(acc[i]) >= SortKey(x)})
    IN  SubSeq(acc, 1, p) \o <<x>> \o SubSeq(acc, p + 1, Len(acc))

RECURSIVE SortFrom(_, _)
SortFrom(acc, list) == IF list = <<>> THEN acc ELSE SortFrom(InsertDesc(acc, Head(list)), Tail(list))

sorted_jobs(list) == SortFrom(<<>>, list)

\* A refresh that merges the answer into the registry.
StoreJobs_Merge(old, list) == old \o sorted_jobs(list)

\* What line 57 stores in the registry on a 2xx JSON object.
StoreJobs(old, list) == sorted_jobs(list)

\* create_job_in_backend, lines 24-34; the return value is job_info(c).
create_job_in_backend(s, c) ==
    [s EXCEPT !.calls = Append(@, Call("POST /jobs", "submit", Absent, c.kind, c.uploadUrl)),
              !.msgs = IF c.kind \in RequestExceptions THEN @ \cup {"error: Error creating job"} ELSE @]

\* An upload that reports its failure through the return value only.
upload_file_Silent(s, upload_url, u) ==
    [s EXCEPT !.calls = Append(@, Call("PUT", "submit", upload_url, u, Absent))]

\* upload_file_to_s3, lines 37-46; returns u = "ok".
upload_file_to_s3(s, upload_url, u) ==
    [s EXCEPT !.calls = Append(@, Call("PUT", "submit", upload_url, u, Absent)),
              !.msgs = IF u \in RequestExceptions THEN @ \cup {"error: Error uploading file to S3"} ELSE @]

\* A refresh that clears the registry when the request fails.
get_jobs_ClearOnError(s, r, site) ==
    LET s1 == [s EXCEPT !.calls = Append(@, Call("GET /jobs", site, Absent, r.kind, r.jobs))]
    IN  CASE r.kind \in RequestExceptions -> [s1 EXCEPT !.jobs = <<>>, !.msgs = @ \cup {"error: Error refreshing job list"}]
          [] r.kind = "shape" -> [s1 EXCEPT !.fault = "AttributeError"]
          [] OTHER -> [s1 EXCEPT !.jobs = StoreJobs(s.jobs, r.jobs), !.msgs = @ \cup {"toast: Job status refreshed!"}]

\* A refresh that closes the instruction viewer when the list arrives.
get_jobs_DropSelection(s, r, site) ==
    LET s1 == [s EXCEPT !.calls = Append(@, Call("GET /jobs", site, Absent, r.kind, r.jobs))]
    IN  CASE r.kind \in RequestExceptions -> [s1 EXCEPT !.msgs = @ \cup {"error: Error refreshing job list"}]
          [] r.kind = "shape" -> [s1 EXCEPT !.fault = "AttributeError"]
          [] OTHER -> [s1 EXCEPT !.jobs = StoreJobs(s.jobs, r.jobs), !.sel = None, !.msgs = @ \cup {"toast: Job status refreshed!"}]

\* get_jobs_from_backend, lines 49-60, called at `site`.  A JSON body that
\* is no object has no .get (line 56): the AttributeError is not caught.
get_jobs_from_backend(s, r, site) ==
    LET s1 == [s EXCEPT !.calls = Append(@, Call("GET /jobs", site, Absent, r.kind, r.jobs))]
    IN  CASE r.kind \in RequestExceptions -> [s1 EXCEPT !.msgs = @ \cup {"error: Error refreshing job list"}]
          [] r.kind = "shape" -> [s1 EXCEPT !.fault = "AttributeError"]
          [] OTHER -> [s1 EXCEPT !.jobs = StoreJobs(s.jobs, r.jobs), !.msgs = @ \cup {"toast: Job status refreshed!"}]

\* A failed fetch that keeps the details shown before.
DetailsAfter_KeepOld(old, d) == IF d.kind \in RequestExceptions THEN old ELSE d

\* What get_job_details leaves in selected_job_details, lines 70 and 73,
\* whatever it held before.
DetailsAfter(old, d) == IF d.kind \in RequestExceptions THEN None ELSE d

\* get_job_details, lines 63-73.
get_job_details(s, job_id, d) ==
    [s EXCEPT !.calls = Append(@, Call("GET instructions", "view", job_id, d.kind, d)),
              !.sel = DetailsAfter(s.sel, d),
              !.msgs = IF d.kind \in RequestExceptions THEN @ \cup {"error: Error fetching job details"} ELSE @]

\* get_pdf_download_url, lines 76-85; the return value is download_url(p).
get_pdf_download_url(s, job_id, p) ==
    LET s1 == [s EXCEPT !.calls = Append(@, Call("GET download", "pdf", job_id, p.kind, p.downloadUrl))]
    IN  CASE p.kind \in RequestExceptions -> [s1 EXCEPT !.msgs = @ \cup {"error: Error generating PDF link"}]
          [] p.kind = "shape" -> [s1 EXCEPT !.fault = "AttributeError"]
          [] OTHER -> s1

\* response.json().get('downloadUrl'), or None from the except branch
download_url(p) == IF p.kind = "json" THEN p.downloadUrl ELSE Absent

\* A test for None only.
Truthy_NotNone(v) == v # Absent

\* `if download_url:` (line 168): neither None nor the empty string
Truthy(v) == v \notin {Absent, ""}

\* A handler that keeps the link a job already has.
PdfHandler_KeepFirst(s, job_id, p) ==
    LET s1 == get_pdf_download_url(s, job_id, p)
    IN  IF s1.fault = "none" /\ Truthy(download_url(p)) /\ s.dl[job_id] = Absent THEN [s1 EXCEPT !.dl[job_id] = download_url(p)] ELSE s1

\* The PDF button's handler, lines 165-170.
PdfHandler(s, job_id, p) ==
    LET s1 == get_pdf_download_url(s, job_id, p)
    IN  IF s1.fault = "none" /\ Truthy(download_url(p)) THEN [s1 EXCEPT !.dl[job_id] = download_url(p)] ELSE s1

\* ------------------------------------------------------------ the dashboard

\* status = job.get('status', 'UNKNOWN'), line 158
StatusOf(job) == Get(job.status, "UNKNOWN")

\* Buttons on every row that is not being processed.
ActionsEnabled_NotProcessing(job) == StatusOf(job) \notin {"PROCESSING", "PENDING_PDF", "PENDING_UPLOAD"}

\* Whether the row of `job` holds the View and PDF buttons, line 159.
ActionsEnabled(job) == StatusOf(job) = "DONE"

\* What column 4 shows for the job, lines 159-176.
StatusShown(job) ==
    CASE StatusOf(job) = "DONE" -> "DONE (success)"
      [] StatusOf(job) = "PENDING_PDF" -> "Generating PDF..."
      [] StatusOf(job) = "PROCESSING" -> "PROCESSING (warning)"
      [] OTHER -> StatusOf(job)

\* The row whose View or PDF button is the one clicked, 0 when this run
\* renders no such button (the button's key is view_<id> or pdf_<id>).
ClickedRow(list, job_id) ==
    IF \E i \in 1..Len(list) : list[i].id = job_id /\ ActionsEnabled(list[i])
    THEN CHOOSE i \in 1..Len(list) : list[i].id = job_id /\ ActionsEnabled(list[i])
    ELSE 0

\* The text the instruction viewer renders for a JobDetails object, lines
\* 200-215: lang comes from the details, 'en' when they name none; the only
\* translation the modelled details carry is translatedInstructions_fr.
InstructionText(d) ==
    LET lang == Get(d.targetLanguage, "en")
        instruction_text == IF lang = "en" THEN d.englishInstructions
                            ELSE IF lang = "fr" THEN d.translatedInstructions_fr ELSE Absent
    IN  IF Truthy(instruction_text) THEN instruction_text ELSE Get(d.englishInstructions, Placeholder)

\* Section 3, lines 185-215.  Details that are a JSON value without .get
\* stop the run at line 188.
InstructionViewer(s) ==
    CASE s.sel.kind = "none" -> s
      [] s.sel.kind = "shape" -> [s EXCEPT !.fault = "AttributeError"]
      [] OTHER -> [s EXCEPT !.page.panel = InstructionText(s.sel)]

\* The end of a run: what it leaves in the session and on the page.
Commit(s, ev) ==
    /\ jobs' = s.jobs
    /\ selected_job_details' = s.sel
    /\ dl' = s.dl
    /\ calls' = s.calls
    /\ msgs' = s.msgs
    /\ fault' = s.fault
    /\ page' = s.page
    /\ event' = ev

\* From section 3 to the end of the script; a fault above ends the run.
Viewer(s, ev) == IF s.fault # "none" THEN Commit(s, ev) ELSE Commit(InstructionViewer(s), ev)

\* What the backend may answer in one specification: the GET /jobs
\* responses, the JobDetails objects and the download responses.
Backend(fails, jobLists, detailsPool, urls) ==
    [fails |-> fails, creates |-> CreateResponses(fails), uploads |-> UploadResponses(fails),
     lists |-> ListResponses(fails, jobLists), details |-> detailsPool, pdfs |-> PdfResponses(fails, urls)]

\* The responses to GET /jobs/<job_id>/instructions.
DetailsFor(env, job_id) == DetailsResponses(env.fails, {d \in env.details : d.jobId = job_id})

\* The table, lines 138-182: every row is rendered; the row of the clicked
\* button runs its handler on the way.  A fault in the PDF handler of row k
\* leaves rows 1..k with their buttons and rows 1..k-1 with their links.
Rows(s, ev, env) ==
    LET n == Len(s.jobs)
        k == IF ev.type \in {"view", "pdf"} THEN ClickedRow(s.jobs, ev.job) ELSE 0
        all == [s EXCEPT !.page.rows = n, !.page.links = n]
    IN  IF s.fault # "none" THEN Commit(s, ev)
        ELSE IF k = 0 THEN Viewer(all, ev)
        ELSE IF ev.type = "view"
             THEN \E d \in DetailsFor(env, ev.job) : Viewer(get_job_details(all, ev.job, d), ev)
             ELSE \E p \in env.pdfs :
                    LET s1 == PdfHandler(all, ev.job, p)
                    IN  IF s1.fault # "none"
                        THEN Commit([s1 EXCEPT !.page.rows = k, !.page.links = k - 1], ev)
                        ELSE Viewer(s1, ev)

\* Whether the run refreshes on its own, line 135.
AutoRefreshDue(s) == s.jobs = <<>>

\* Lines 134-136.
AutoRefresh(s, ev, env) ==
    IF s.fault # "none" THEN Commit(s, ev)
    ELSE IF AutoRefreshDue(s)
         THEN \E r \in env.lists : Rows(get_jobs_from_backend(s, r, "auto"), ev, env)
         ELSE Rows(s, ev, env)

\* Section 2 from its top, lines 126-132.
Dashboard(s, ev, env) ==
    LET s1 == [s EXCEPT !.page.refresh = TRUE]
    IN  IF s.fault # "none" THEN Commit(s, ev)
        ELSE IF ev.type = "refresh"
             THEN \E r \in env.lists : AutoRefresh(get_jobs_from_backend(s1, r, "refresh"), ev, env)
             ELSE AutoRefresh(s1, ev, env)

\* --------------------------------------------------------------- section 1

\* A trigger of a run; file is what st.file_uploader returns in the run
\* of a "Start Processing" click (uploaded_file, line 106).
Event(type, job, file) == [type |-> type, job |-> job, file |-> file]

\* The URL the file is PUT to, line 116.
UploadTarget(job_info) == job_info.uploadUrl

\* `if job_info and "uploadUrl" in job_info`, line 113
HasUploadUrl(c) == c.kind = "json" /\ c.uploadUrl # Absent

\* Lines 118-121 after a 2xx upload: job_info['jobId'] is read for the
\* success message before the registry is refreshed.
AfterUpload(s, c, ev, env) ==
    IF c.jobId = Absent THEN Dashboard([s EXCEPT !.fault = "KeyError"], ev, env)
    ELSE \E r \in env.lists :
           Dashboard(get_jobs_from_backend([s EXCEPT !.msgs = @ \cup {"success: Job created. Refreshing status..."}], r, "submit"), ev, env)

\* Lines 111-121: the file is selected.
Submit(s, ev, env) ==
    \E c \in env.creates :
       LET s1 == create_job_in_backend(s, c)
       IN  IF HasUploadUrl(c)
           THEN \E u \in env.uploads :
                  LET s2 == upload_file_to_s3(s1, UploadTarget(c), u)
                  IN  IF u = "ok" THEN AfterUpload(s2, c, ev, env) ELSE Dashboard(s2, ev, env)
           ELSE Dashboard(s1, ev, env)

\* Lines 108-123: the "Start Processing" button returned True.
StartHandler(s, ev, env) ==
    IF ev.file # NoFile THEN Submit(s, ev, env)
    ELSE Dashboard([s EXCEPT !.msgs = @ \cup {"warning: Please select a file to upload."}], ev, env)

\* ------------------------------------------------------------------ the runs

\* A fresh session, lines 16-19: nothing has run and nothing is rendered.
Init ==
    /\ jobs = <<>>
    /\ selected_job_details = None
    /\ dl = [id \in JobIds |-> Absent]
    /\ event = Event("init", Absent, NoFile)
    /\ calls = <<>>
    /\ msgs = {}
    /\ fault = "none"
    /\ page = BlankPage

Loaded == event.type # "init"

\* The first run of the script, when the page is opened.
Load(env) ==
    /\ ~Loaded
    /\ Dashboard(Begin, Event("load", Absent, NoFile), env)

\* A rerun no button triggered: the user picked a file or a language, or
\* asked for a rerun.
Interact(env) ==
    /\ Loaded
    /\ Dashboard(Begin, Event("interact", Absent, NoFile), env)

\* A click on "Start Processing" (line 108).
StartClick(env) ==
    /\ Loaded
    /\ \E uploaded_file \in Files : StartHandler(Begin, Event("start", Absent, uploaded_file), env)

\* A click on "Refresh" (line 131); the button is on the page.
RefreshClick(env) ==
    /\ page.refresh
    /\ Dashboard(Begin, Event("refresh", Absent, NoFile), env)

\* The rows of the page that hold the View and PDF buttons.
ButtonRows == {i \in 1..page.rows : ActionsEnabled(jobs[i])}

\* A click on a row's "View" button (line 163).
ViewClick(env) ==
    /\ \E i \in ButtonRows : Dashboard(Begin, Event("view", jobs[i].id, NoFile), env)

\* A click on a row's "PDF" button (line 165).
PdfClick(env) ==
    /\ \E i \in ButtonRows : Dashboard(Begin, Event("pdf", jobs[i].id, NoFile), env)

\* ------------------------------------------------------ requests in flight

\* requests.post and requests.get block the script until the response is
\* there (lines 29 and 80).  The run of a click is split here at that
\* point: the request is out, the page still shows what the run before
\* rendered, and the button that was clicked is on it as before, since
\* st.button is called without disabled= and the session keeps no mark of
\* a request being out (lines 108 and 165).
Pending(op, site, target) == Call(op, site, target, "pending", Absent)

\* The requests that are out and not yet answered.
InFlight == {i \in DOMAIN calls : calls[i].kind = "pending"}

\* A click on "Start Processing" with a file selected, up to line 29.
SendStart ==
    /\ Loaded
    /\ InFlight = {}
    /\ \E uploaded_file \in Files \ {NoFile} : event' = Event("start", Absent, uploaded_file)
    /\ calls' = <<Pending("POST /jobs", "submit", Absent)>>
    /\ msgs' = {}
    /\ fault' = "none"
    /\ UNCHANGED <<jobs, selected_job_details, dl, page>>

\* A click on a row's "PDF" button, up to line 80.
SendPdf ==
    /\ InFlight = {}
    /\ \E i \in ButtonRows :
          /\ event' = Event("pdf", jobs[i].id, NoFile)
          /\ calls' = <<Pending("GET download", "pdf", jobs[i].id)>>
    /\ msgs' = {}
    /\ fault' = "none"
    /\ UNCHANGED <<jobs, selected_job_details, dl, page>>

\* A second click on the button whose request is out.  Nothing in the
\* script refuses it: Streamlit runs the script for the click (at once
\* under runner.fastReruns, its default) and the run reaches the same
\* request with the first one unanswered.
ClickAgain ==
    /\ InFlight # {}
    /\ Len(calls) = 1
    /\ calls' = Append(calls, calls[1])
    /\ UNCHANGED <<jobs, selected_job_details, dl, event, msgs, fault, page>>

\* What a PDF run that a second click superseded leaves behind: line 170
\* comes before the run's next Streamlit command, where it is stopped.
Superseded(s, env) ==
    IF event.type = "pdf" /\ Len(calls) > 1
    THEN {[s EXCEPT !.dl = PdfHandler(s, event.job, p).dl] : p \in env.pdfs}
    ELSE {s}

\* The responses arrive: the run of the last click goes on to its end
\* with the response to its own request.
Receive(env) ==
    /\ InFlight # {}
    /\ \E s \in Superseded(Begin, env) :
          IF event.type = "start" THEN StartHandler(s, event, env) ELSE Dashboard(s, event, env)

\* ------------------------------------------------------- the specifications

\* The whole session: every control, against a backend whose jobs are DONE
\* or PROCESSING.
SessionJobs == [id : JobIds, status : {"DONE", "PROCESSING"}, uploadTimestamp : {Absent}, targetLanguage : {"fr"}]

SessionDetails == [kind : {"json"}, jobId : JobIds, targetLanguage : {"fr"}, englishInstructions : {"Turn off power."}, translatedInstructions_fr : {"Coupez l'alimentation."}]

Session == Backend({"http", "shape"}, JobListsById(SessionJobs), SessionDetails, {Absent, "https://x/d1"})

Next == Load(Session) \/ Interact(Session) \/ StartClick(Session) \/ RefreshClick(Session) \/ ViewClick(Session) \/ PdfClick(Session)

Spec == Init /\ [][Next]_vars

\* The registry alone: first load and Refresh, against a backend that lists
\* jobs with any timestamps in any order.
SortJobs == [id : JobIds, status : {"PROCESSING"}, uploadTimestamp : Timestamps, targetLanguage : {"en"}]

Sorting == Backend({"http"}, JobLists(SortJobs), {}, {})

NextSort == Load(Sorting) \/ RefreshClick(Sorting)

SpecSort == Init /\ [][NextSort]_vars

\* The rows and their buttons, against a backend that reports any status.
StatusJobs == [id : JobIds, status : Statuses, uploadTimestamp : {Absent}, targetLanguage : {"en"}]

Reporting == Backend({"http"}, JobListsById(StatusJobs), SessionDetails, {"https://x/d1"})

NextStatus == Load(Reporting) \/ Interact(Reporting) \/ ViewClick(Reporting) \/ PdfClick(Reporting)

SpecStatus == Init /\ [][NextStatus]_vars

\* The instruction viewer, against a backend whose DONE jobs and details
\* carry any target language and any instruction texts.
ViewerJobs == [id : JobIds, status : {"DONE"}, uploadTimestamp : {Absent}, targetLanguage : JobLanguages]

ViewerDetails == [kind : {"json"}, jobId : JobIds, targetLanguage : JobLanguages, englishInstructions : Texts, translatedInstructions_fr : Translations]

Viewing == Backend(Failures, JobListsById(ViewerJobs), ViewerDetails, {})

NextViewer == Load(Viewing) \/ Interact(Viewing) \/ ViewClick(Viewing)

SpecViewer == Init /\ [][NextViewer]_vars

\* The download links: first load, reruns, Refresh and the PDF buttons,
\* against a backend that answers a link request with one of two URLs, with
\* an empty URL or without one, or fails it in any way.
LinkJobs == [id : JobIds, status : {"DONE", "PROCESSING"}, uploadTimestamp : {Absent}, targetLanguage : {"en"}]

DownloadUrls == {"https://x/d1", "https://x/d2"}

Linking == Backend(Failures, JobListsById(LinkJobs), {}, DownloadUrls \cup {Absent, ""})

NextLinks == Load(Linking) \/ Interact(Linking) \/ RefreshClick(Linking) \/ PdfClick(Linking)

SpecLinks == Init /\ [][NextLinks]_vars

\* Double clicks: first load, then clicks on "Start Processing" and "PDF"
\* followed while the request is out.
Flying == Backend({"http"}, JobListsById(SessionJobs), {}, {"https://x/d1"})

NextFlight == Load(Flying) \/ SendStart \/ SendPdf \/ ClickAgain \/ Receive(Flying)

SpecFlight == Init /\ [][NextFlight]_vars

\* ------------------------------------------------------------ observations

ErrorMsgs == {"error: Error creating job", "error: Error uploading file to S3", "error: Error refreshing job list", "error: Error fetching job details", "error: Error generating PDF link"}

NoFileWarning == "warning: Please select a file to upload."

\* The requests of the last run with the given method and path.
CallsOf(op) == {i \in DOMAIN calls : calls[i].op = op}

\* A creation response the submit flow can go on with.
CreationSucceeded(c) == c.kind = "json" /\ c.reply # Absent

\* The last run was a click on "Start Processing" with no file selected.
SubmittedNothing == event.type = "start" /\ event.file = NoFile

\* The last run saw both phases of a submission succeed.
BothPhasesSucceeded ==
    /\ \E i \in CallsOf("POST /jobs") : CreationSucceeded(calls[i])
    /\ \E k \in CallsOf("PUT") : calls[k].kind = "ok"

\* The GET /jobs requests of the last run that were answered with a job list.
Refreshed == {i \in CallsOf("GET /jobs") : calls[i].kind = "json"}

\* Whether the registry holds every job of list.
Holds(list) == \A k \in DOMAIN list : \E n \in DOMAIN jobs : jobs[n] = list[k]

\* ------------------------------------------------------------------ claims

\* C1: a click on "Start Processing" with no file selected surfaces the
\* local warning and the run that handles the click issues no request at
\* all: no POST /jobs, no PUT and no GET /jobs.
C1_NoFileNoRequest == SubmittedNothing => (NoFileWarning \in msgs /\ calls = <<>>)

\* C2: when job creation fails (the request fails, or the response lacks
\* uploadUrl) an error is surfaced and no PUT is issued; every PUT follows
\* a creation response that carried the URL it targets.
C2_CreationFailureAborts ==
    /\ \A i \in CallsOf("POST /jobs") :
          ~CreationSucceeded(calls[i]) => (msgs \cap ErrorMsgs # {} /\ CallsOf("PUT") = {})
    /\ \A k \in CallsOf("PUT") :
          \E i \in CallsOf("POST /jobs") :
             i < k /\ CreationSucceeded(calls[i]) /\ calls[i].reply = calls[k].target

\* C3: when creation answered with an uploadUrl and the upload succeeded,
\* the click handler requests the job list before it ends, and when that
\* request is the one answered in the run, the registry holds the jobs
\* the backend listed.
C3_SuccessRefreshes ==
    BothPhasesSucceeded =>
       \E i \in CallsOf("GET /jobs") :
          calls[i].site = "submit" /\ (Refreshed = {i} => Holds(calls[i].reply))

\* The job list of the last answered GET /jobs request of the run.
LastListed == calls[CHOOSE i \in Refreshed : \A k \in Refreshed : k <= i].reply

\* The GET /jobs requests of the last run that failed.
RefreshFailed == CallsOf("GET /jobs") \ Refreshed

\* The user was shown that something went wrong: st.error was called, or
\* Streamlit rendered the exception that stopped the run.
ErrorShown == msgs \cap ErrorMsgs # {} \/ fault # "none"

\* C5: the registry changes only in a run in which GET /jobs was answered
\* with a job list, and then to that list; a run whose refreshes all fail
\* leaves the registry as it was and shows an error.  View, PDF and a
\* rejected or failed submission issue no answered GET /jobs, so they leave
\* the registry and every status in it alone.
C5_RegistryFrame ==
    [][/\ jobs' # jobs => (Refreshed' # {} /\ Len(jobs') = Len(LastListed') /\ Holds(LastListed)')
       /\ (RefreshFailed' # {} /\ Refreshed' = {}) => (jobs' = jobs /\ ErrorShown')]_vars

C5_FailedRefreshKeepsJobs == event.type = "refresh" /\ jobs # <<>> /\ RefreshFailed # {} /\ Refreshed = {}

\* C6: no two entries of the registry carry the same job id, and after a
\* run in which GET /jobs was answered the registry holds exactly the jobs
\* of the last answer: the answer replaces what the registry held.
C6_UniqueIds ==
    /\ NoDup(jobs)
    /\ Refreshed # {} => (Len(jobs) = Len(LastListed) /\ Holds(LastListed))

C6_RefreshedTwoJobs == event.type = "refresh" /\ Refreshed # {} /\ Len(jobs) = 2 /\ jobs[1].id # jobs[2].id

\* The rank of the timestamp a job sorts by: a job without one sorts as "".
TimestampRank(job) == IF job.uploadTimestamp = Absent THEN StrRank("") ELSE StrRank(job.uploadTimestamp)

\* The place of job in list.
Place(list, job) == CHOOSE n \in DOMAIN list : list[n] = job

\* C4: after a run in which GET /jobs was answered, the registry is a
\* permutation of the last answer, non-increasing by uploadTimestamp with a
\* missing timestamp read as "" (so last), and jobs of equal timestamp are
\* in the order the backend listed them.
C4_SortedNewestFirst ==
    Refreshed # {} =>
       /\ Len(jobs) = Len(LastListed)
       /\ Holds(LastListed)
       /\ \A i, k \in DOMAIN jobs :
             i < k => /\ TimestampRank(jobs[i]) >= TimestampRank(jobs[k])
                      /\ TimestampRank(jobs[i]) = TimestampRank(jobs[k])
                            => Place(LastListed, jobs[i]) < Place(LastListed, jobs[k])

\* A refresh that moved a job without timestamp from first to last.
C4_MissingMovedLast == Refreshed # {} /\ Len(jobs) = 2 /\ jobs[2].uploadTimestamp = Absent /\ LastListed[1] = jobs[2] /\ jobs[1].uploadTimestamp # ""

\* The requests of the last run for a job's details or download link.
ActionCalls == CallsOf("GET instructions") \cup CallsOf("GET download")

\* C7: the View and PDF buttons are on the rows whose status is exactly
\* DONE and on no other; no details or download request is issued for a
\* job of another status, missing or unrecognized; every such row is
\* rendered with a status text and without a fault of its own.
C7_ActionsOnlyWhenDone ==
    /\ \A i \in DOMAIN jobs : i \in ButtonRows => jobs[i].status = "DONE"
    /\ \A c \in ActionCalls : \E i \in DOMAIN jobs : jobs[i].id = calls[c].target /\ jobs[i].status = "DONE"
    /\ event.type \in {"view", "pdf"} => \E i \in DOMAIN jobs : jobs[i].id = event.job /\ jobs[i].status = "DONE"
    /\ \A i \in DOMAIN jobs : jobs[i].status # "DONE" => (StatusShown(jobs[i]) \notin {Absent, ""} /\ (fault = "none" => page.rows = Len(jobs)))

\* A View click on a DONE job listed after a job of an unrecognized status.
C7_ViewedBesideUnrecognized == event.type = "view" /\ Len(jobs) = 2 /\ jobs[1].status = "ARCHIVED" /\ event.job = jobs[2].id /\ ActionCalls # {}

\* The selected details are a JobDetails object.
DetailsShown == selected_job_details.kind = "json" /\ page.panel # NoPanel

\* C8: the instruction panel never renders empty text; when neither the
\* translation nor englishInstructions is a non-empty text, it renders the
\* placeholder.
C8_PanelNeverEmpty ==
    DetailsShown =>
       /\ Truthy(page.panel)
       /\ (~Truthy(selected_job_details.translatedInstructions_fr) /\ ~Truthy(selected_job_details.englishInstructions)) => page.panel = Placeholder

\* The row of the job the last View click was on.
ViewedRow == CHOOSE i \in DOMAIN jobs : jobs[i].id = event.job

\* The details response names no target language, or the one the registry
\* holds for the job.
DetailsAgree == selected_job_details.targetLanguage \in {Absent, jobs[ViewedRow].targetLanguage}

\* C9: after a View click on a job whose target language in the registry
\* is fr, the panel renders translatedInstructions_fr when that is a
\* non-empty text and englishInstructions otherwise; for a job whose target
\* language is en it renders englishInstructions; the details response
\* need not repeat the language.
C9_LanguageOfTheJob ==
    (event.type = "view" /\ DetailsShown /\ DetailsAgree /\ Truthy(selected_job_details.englishInstructions)) =>
       /\ jobs[ViewedRow].targetLanguage = "fr" =>
             page.panel = IF Truthy(selected_job_details.translatedInstructions_fr) THEN selected_job_details.translatedInstructions_fr ELSE selected_job_details.englishInstructions
       /\ jobs[ViewedRow].targetLanguage = "en" => page.panel = selected_job_details.englishInstructions

LinkCalls == CallsOf("GET download")

\* The row of job_id holds a "Download PDF" link (lines 179-180).
LinkShown(job_id) == \E i \in 1..page.links : jobs[i].id = job_id /\ dl[job_id] # Absent

\* The row of the job the last click was on holds the link.
ClickedLinkShown == LinkShown(event.job)

\* C11: a click on a job's PDF button issues the link request for that job;
\* when it answers a URL, that URL is cached under the job id, whatever was
\* cached before (the same URL stays, another is overwritten), and is the
\* link the row shows; when it fails, the job's entry stays as it was and
\* an error is shown; no other job's entry changes.
C11_ResolveCaches ==
    [][event'.type = "pdf" =>
          /\ LinkCalls' # {}
          /\ \A i \in LinkCalls' :
                /\ calls'[i].target = event'.job
                /\ (calls'[i].kind = "json" /\ Truthy(calls'[i].reply)) =>
                      (dl'[event'.job] = calls'[i].reply /\ ClickedLinkShown')
                /\ calls'[i].kind # "json" => (dl'[event'.job] = dl[event'.job] /\ ErrorShown')
          /\ \A id \in JobIds \ {event'.job} : dl'[id] = dl[id]]_vars

\* A resolve that cached the second URL for one job while another job's
\* link was cached.
C11_ResolvedBesideCached ==
    /\ event.type = "pdf"
    /\ \E i \in LinkCalls : calls[i].kind = "json" /\ calls[i].reply = "https://x/d2"
    /\ dl[event.job] = "https://x/d2"
    /\ \E id \in JobIds \ {event.job} : dl[id] = "https://x/d1"

\* The last run was a click on a PDF button that cached the answered URL.
JustResolved == event.type = "pdf" /\ \E i \in LinkCalls : calls[i].kind = "json" /\ Truthy(calls[i].reply)

\* C12: the render after the one that resolved a job's link, when it does
\* not request the job list, still holds the link in the cache and shows
\* it on the job's row, whatever the click was (View, a submission, a failed
\* resolve for the same job, a resolve for another job).
C12_LinkStaysShown ==
    [][(JustResolved /\ CallsOf("GET /jobs")' = {}) =>
          /\ dl'[event.job] # Absent
          /\ \E i \in 1..page'.links : jobs'[i].id = event.job]_vars

\* The requests of the last run that failed: no response, a 4xx/5xx status,
\* a body that is not JSON, or JSON of an unexpected shape.
FailedCalls == {i \in DOMAIN calls : calls[i].kind \in Failures}

\* C13: whichever of the five requests fails, in whichever way, the
\* failure is caught and reported with st.error, and no run of the script
\* ends in an exception.
C13_FailuresHandled ==
    /\ fault = "none"
    /\ FailedCalls # {} => msgs \cap ErrorMsgs # {}

\* C14: no request is repeated in the run in which it failed: a failed
\* request is followed, while the same click is handled, by no request of
\* the same method, path and target; in particular a failed GET /jobs is
\* followed by no second GET /jobs.
C14_NoRetry ==
    \A i \in FailedCalls : \A k \in DOMAIN calls :
       i < k => (calls[k].op # calls[i].op \/ calls[k].target # calls[i].target)

\* The GET /jobs requests of the last run that no click asked for (line 136).
AutoRefreshCalls == {i \in CallsOf("GET /jobs") : calls[i].site = "auto"}

\* C15: the refresh that no click asked for is requested in the first run
\* of the session only; in every later run GET /jobs is requested only by
\* a click on Refresh or after a successful submission, also while the
\* registry is empty because the backend lists no job.
C15_AutoRefreshOnce == AutoRefreshCalls # {} => event.type = "load"

\* The upload of the last run failed.
UploadFailed == \E k \in CallsOf("PUT") : calls[k].kind # "ok"

\* C16: when the creation answered an uploadUrl and the PUT to it failed,
\* the upload error is surfaced, the click handler requests no job list
\* (a GET /jobs of that run can only be the dashboard's own), and the run
\* issues one POST /jobs, one PUT and no other request for the job.
C16_FailedUploadStops ==
    UploadFailed =>
       /\ "error: Error uploading file to S3" \in msgs
       /\ \A i \in CallsOf("GET /jobs") : calls[i].site = "auto"
       /\ Cardinality(CallsOf("POST /jobs")) = 1
       /\ Cardinality(CallsOf("PUT")) = 1
       /\ \A i \in DOMAIN calls : calls[i].op \in {"POST /jobs", "PUT", "GET /jobs"}

\* A failed upload in a session whose registry is empty: the dashboard
\* refreshes, the click handler does not.
C16_UploadFailedOnEmptyRegistry == event.type = "start" /\ UploadFailed /\ AutoRefreshCalls # {}

\* The rows of the page that hold a "Download PDF" link (lines 179-180).
LinkRows == {i \in 1..page.links : dl[jobs[i].id] # Absent}

\* C17: a row holds the "Download PDF" link only if the registry reports
\* the row's job as DONE; once a refresh reports another status for the
\* job, its row holds no download control.
C17_LinkOnlyWhenDone == \A i \in LinkRows : StatusOf(jobs[i]) = "DONE"

\* The link requests of the last run that were answered without a URL
\* (downloadUrl missing or empty).
AnsweredWithoutUrl == {i \in LinkCalls : calls[i].kind = "json" /\ ~Truthy(calls[i].reply)}

\* The registry holds job_id as DONE.
HeldDone(job_id) == \E n \in DOMAIN jobs : jobs[n].id = job_id /\ StatusOf(jobs[n]) = "DONE"

\* C19: every cached link is a non-empty URL; an entry is written only by
\* a click on the PDF button of its job, with the URL the link request
\* answered, in a run in which the registry held the job as DONE; an answer
\* without a URL (missing or empty) writes nothing.  The cache starts
\* empty, so every entry was written that way.
C19_CacheEntries ==
    [][/\ \A id \in JobIds :
             /\ dl'[id] \in DownloadUrls \cup {Absent}
             /\ dl'[id] # dl[id] =>
                   /\ event'.type = "pdf" /\ event'.job = id
                   /\ \E i \in LinkCalls' : calls'[i].kind = "json" /\ calls'[i].reply = dl'[id]
                   /\ HeldDone(id) /\ jobs' = jobs
       /\ AnsweredWithoutUrl' # {} => dl' = dl]_vars

\* A link request answered with an empty URL for a job whose link is cached.
C19_EmptyUrlKeepsEntry ==
    event.type = "pdf" /\ dl[event.job] = "https://x/d1" /\ \E i \in AnsweredWithoutUrl : calls[i].reply = ""

\* The registry holds a job with this id.
Listed(job_id) == \E n \in DOMAIN jobs : jobs[n].id = job_id

\* C20: the selected details change only in the run of a View click and
\* the cached links only in the run of a PDF click: a refresh, answered or
\* failed, a submission and any other run leave both as they were, also
\* for a job the refreshed registry no longer lists.
C20_RefreshKeepsDetailsAndLinks ==
    [][/\ event'.type # "view" => selected_job_details' = selected_job_details
       /\ event'.type # "pdf" => dl' = dl]_vars

\* After an answered refresh the viewer shows the details, and the cache
\* holds the link, of a job the registry no longer lists.
C20_OrphansRemain ==
    /\ event.type = "refresh" /\ Refreshed # {}
    /\ selected_job_details.kind = "json" /\ ~Listed(selected_job_details.jobId) /\ page.panel # NoPanel
    /\ \E id \in JobIds : dl[id] # Absent /\ ~Listed(id)

\* C18: at no point are two requests of the same kind for the same target
\* out together: once "Start Processing" or a job's "PDF" button has been
\* clicked, a second click before the response is there issues no second
\* POST /jobs or GET download.
C18_OneRequestInFlight ==
    \A i, k \in InFlight : (calls[i].op = calls[k].op /\ calls[i].target = calls[k].target) => i = k

====
